---- MODULE Spec2Model ----
(***************************************************************************)
(* Authentication and session lifecycle of the X University API            *)
(* (backend/app/services/auth_service.py, core/security.py,                *)
(* models/auth.py, schemas/auth.py, api/routes/auth.py, api/deps.py).      *)
(*                                                                         *)
(* Time is counted in minutes.  One request reads the clock as a single    *)
(* value: the clock advances only between requests.                        *)
(***************************************************************************)
EXTENDS Integers, Sequences, FiniteSets, TLC

\* ---------------------------------------------------------------- bounds
MaxSessions == 2
MaxTicks == 1
NumProcs == 2
MaxFailures == 6
MaxTokenTicks == 3

\* ------------------------------------------------------ program constants
ACCESS_TOKEN_EXPIRES_MINUTES == 30
REFRESH_TOKEN_EXPIRES_DAYS == 7
\* the failed attempts after which an account is to be locked
LOCK_THRESHOLD == 5
\* the minutes an account stays locked
LOCK_MINUTES == 30

MinutesPerDay == 24 * 60
RefreshTtl == REFRESH_TOKEN_EXPIRES_DAYS * MinutesPerDay

VARIABLES
    now,            \* wall clock, datetime.now(timezone.utc)
    ticks,          \* number of clock advances so far
    users,          \* committed rows of table "users"
    sessions,       \* committed rows of table "sessions"
    nextUserId,     \* autoincrement sequence of users.id
    nextSessionId,  \* autoincrement sequence of sessions.id
    req,            \* per request slot: the registration in flight
    tokens,         \* tokens handed to clients so far
    resp,           \* response produced by the last step
    failRun,        \* observer: consecutive failed logins per email
    loggedOut       \* observer: access tokens issued before a logout

vars == <<now, ticks, users, sessions, nextUserId, nextSessionId, req,
          tokens, resp, failRun, loggedOut>>

Procs == 1..NumProcs

\* a null timestamp column
Null == -1

\* ------------------------------------------------------------- inputs
\* e-mail addresses as typed by clients: character sequences
RawEmails == { <<"a">>, <<"A">>, <<"b">> }
StrongSecret ==
    <<"S", "t", "r", "o", "n", "g", "S", "e", "c", "r", "e", "t", "1", "2",
      "3", "!">>
WrongSecret == <<"w", "r", "o", "n", "g", "s", "e", "c", "r", "e", "t">>
Passwords == { StrongSecret, WrongSecret }
ValidPasswords == { StrongSecret }
\* (user_agent, ip_address) as extracted by get_client_info
Clients == { [ua |-> "", ip |-> ""], [ua |-> "curl", ip |-> "10.0.0.1"] }
\* a request without a User-Agent header and without a client address
None == "None"
HeaderlessClient == [ua |-> None, ip |-> None]

\* ------------------------------------------------------ string helpers
UpperLetters ==
    <<"A", "B", "C", "D", "E", "F", "G", "H", "I", "J", "K", "L", "M", "N",
      "O", "P", "Q", "R", "S", "T", "U", "V", "W", "X", "Y", "Z">>
LowerLetters ==
    <<"a", "b", "c", "d", "e", "f", "g", "h", "i", "j", "k", "l", "m", "n",
      "o", "p", "q", "r", "s", "t", "u", "v", "w", "x", "y", "z">>

\* str.isupper, str.islower, str.isdigit, str.isalnum of one character
isupper(c) == \E i \in 1..26 : UpperLetters[i] = c
islower(c) == \E i \in 1..26 : LowerLetters[i] = c
isdigit(c) == c \in {"0", "1", "2", "3", "4", "5", "6", "7", "8", "9"}
isalnum(c) == isupper(c) \/ islower(c) \/ isdigit(c)

LowerChar(c) ==
    IF isupper(c)
    THEN LowerLetters[CHOOSE i \in 1..26 : UpperLetters[i] = c]
    ELSE c

\* str.lower()
Lower(s) == [i \in 1..Len(s) |-> LowerChar(s[i])]

RECURSIVE LStrip(_)
LStrip(s) == IF s # <<>> /\ Head(s) = " " THEN LStrip(Tail(s)) ELSE s

RECURSIVE RStrip(_)
RStrip(s) ==
    IF s # <<>> /\ s[Len(s)] = " " THEN RStrip(SubSeq(s, 1, Len(s) - 1)) ELSE s

\* str.strip()
Strip(s) == RStrip(LStrip(s))

\* str(int): the decimal digits of a non-negative integer
RECURSIVE Str(_)
Str(n) == IF n < 10 THEN <<n>> ELSE Str(n \div 10) \o <<n % 10>>

\* int(str)
RECURSIVE ToInt(_)
ToInt(s) ==
    IF Len(s) = 1 THEN s[1]
    ELSE 10 * ToInt(SubSeq(s, 1, Len(s) - 1)) + s[Len(s)]

\* UserRegisterRequest.validate_email / UserLoginRequest.validate_email
validate_email_nolower(v) == Strip(v)
validate_email(v) == Strip(Lower(v))

\* "word in s" of two strings
Contains(word, s) ==
    \E i \in 0..(Len(s) - Len(word)) : SubSeq(s, i + 1, i + Len(word)) = word

\* ----------------------------------------------------- password policy
PASSWORD_MIN_LENGTH == 8
PASSWORD_MAX_LENGTH == 128
\* the longest run of one character the validator lets pass
MAX_REPEAT == 3

common_substrings ==
    {<<"p", "a", "s", "s", "w", "o", "r", "d">>, <<"a", "d", "m", "i", "n">>,
     <<"u", "s", "e", "r">>, <<"l", "o", "g", "i", "n">>,
     <<"q", "w", "e", "r", "t", "y">>}

common_passwords ==
    {<<"1", "2", "3", "4", "5", "6", "7", "8", "9">>,
     <<"1", "2", "3", "4", "5", "6", "7", "8">>,
     <<"1", "2", "3", "4", "5", "6", "7">>,
     <<"1", "2", "3", "4", "5", "6">>}

NoPasswordError == ""

\* the checks of validate_password after the length checks, given the text
\* the common words are looked for in
password_checks(v, searched) ==
    IF ~\E i \in 1..Len(v) : isupper(v[i])
    THEN "Password must contain at least one uppercase letter"
    ELSE IF ~\E i \in 1..Len(v) : islower(v[i])
    THEN "Password must contain at least one lowercase letter"
    ELSE IF ~\E i \in 1..Len(v) : isdigit(v[i])
    THEN "Password must contain at least one number"
    ELSE IF ~\E i \in 1..Len(v) : ~isalnum(v[i])
    THEN "Password must contain at least one special character"
    ELSE IF \E word \in common_substrings : Contains(word, searched)
    THEN "Password cannot contain common word"
    ELSE IF Lower(v) \in common_passwords
    THEN "Password is too common"
    ELSE IF \E i \in 0..(Len(v) - MAX_REPEAT - 1) :
               Cardinality({v[k] : k \in (i + 1)..(i + MAX_REPEAT + 1)}) = 1
    THEN "Password cannot contain more than 3 consecutive identical characters"
    ELSE NoPasswordError

\* Field(min_length=8, max_length=128), then
\* UserRegisterRequest.validate_password: the error of a password, if any
validate_password_case_sensitive(v) ==
    IF Len(v) < PASSWORD_MIN_LENGTH THEN "string_too_short"
    ELSE IF Len(v) > PASSWORD_MAX_LENGTH THEN "string_too_long"
    ELSE password_checks(v, v)
validate_password(v) ==
    IF Len(v) < PASSWORD_MIN_LENGTH THEN "string_too_short"
    ELSE IF Len(v) > PASSWORD_MAX_LENGTH THEN "string_too_long"
    ELSE password_checks(v, Lower(v))

\* ------------------------------------------------------------- hashing
\* bcrypt.hashpw reads at most the first 72 bytes of its input
BCRYPT_MAX_BYTES == 72
hashpw(bytes) == <<"$2b$", bytes>>

\* the bytes of a password that bcrypt reads
PasswordBytes(password) ==
    IF Len(password) > BCRYPT_MAX_BYTES
    THEN SubSeq(password, 1, BCRYPT_MAX_BYTES) ELSE password

hash_password(password) == hashpw(PasswordBytes(password))
verify_password(password, hashed_password) ==
    hashed_password = hashpw(PasswordBytes(password))

\* ------------------------------------------------------------- tokens
NoJti == <<>>
NoToken == [type |-> "none", sub |-> <<>>, iat |-> 0, exp |-> 0, jti |-> NoJti]

create_access_token_nosub(subject, t) ==
    [type |-> "access", sub |-> Str(0), iat |-> t,
     exp |-> t + ACCESS_TOKEN_EXPIRES_MINUTES, jti |-> NoJti]
create_access_token(subject, t) ==
    [type |-> "access", sub |-> subject, iat |-> t,
     exp |-> t + ACCESS_TOKEN_EXPIRES_MINUTES, jti |-> NoJti]

\* create_access_token called with an expires_delta (Null for None): the
\* delta is used when it is truthy, and timedelta(0) is not
create_access_token_delta(subject, expires_delta, t) ==
    [type |-> "access", sub |-> Str(subject), iat |-> t,
     exp |-> IF expires_delta # Null /\ expires_delta # 0
             THEN t + expires_delta
             ELSE t + ACCESS_TOKEN_EXPIRES_MINUTES,
     jti |-> NoJti]

create_refresh_token(subject, jti, t) ==
    [type |-> "refresh", sub |-> subject, iat |-> t,
     exp |-> t + RefreshTtl, jti |-> jti]

\* The first 72 bytes of an encoded token: the fixed 36 character header,
\* the dot, and 35 characters of the payload, i.e. its first 26 bytes
\* {"exp":NNNNNNNNNN,"iat":NN  -- the whole expiry and the two leading
\* digits of iat, which do not vary.
First72(token) == [exp |-> token.exp]

hash_refresh_token(token) == hashpw(First72(token))
verify_refresh_token(token, hashed_token) ==
    hashed_token = hashpw(First72(token))

\* decode_token: jwt.decode rejects a token once exp <= now.  Only tokens
\* signed by the server are presented, so the signature check passes.
decode_token(token, t) ==
    IF token.type = "none" THEN [ok |-> FALSE, detail |-> "Invalid token"]
    ELSE IF token.exp <= t THEN [ok |-> FALSE, detail |-> "Token has expired"]
    ELSE [ok |-> TRUE, detail |-> ""]

\* verify_token_type
verify_token_type_any(payload, expected_type) == TRUE
verify_token_type(payload, expected_type) == payload.type = expected_type

\* the message of verify_token_type's AuthError
TokenTypeDetail(expected_type, token_type) ==
    IF expected_type = "access" /\ token_type = "refresh"
    THEN "Invalid token type. Expected access, got refresh"
    ELSE IF expected_type = "refresh" /\ token_type = "access"
    THEN "Invalid token type. Expected refresh, got access"
    ELSE "Invalid token type"

\* ------------------------------------------------------------ responses
TokenKeys == {"access_token", "refresh_token", "token_type", "expires_in"}
AccessKeys == {"access_token", "token_type", "expires_in"}

NoResp ==
    [op |-> "none", ok |-> FALSE, status |-> 0, detail |-> <<>>, keys |-> {},
     access |-> NoToken, refresh |-> NoToken, presented |-> NoToken,
     email |-> <<>>, password |-> <<>>, user_id |-> 0, total_sessions |-> 0,
     count |-> 0, branch |-> "", session_id |-> 0, error |-> <<>>,
     secret |-> "", code |-> <<>>, codes |-> <<>>]

\* str(e) of an AuthError: HTTPException renders "{status_code}: {detail}",
\* and AuthError is always raised with its default status 401
StrOfAuthError(detail) == <<401, detail>>

\* except AuthError as e: raise HTTPException(status_code, detail=str(e))
ErrorResp(op, status, detail, branch) ==
    [NoResp EXCEPT !.op = op, !.status = status,
                   !.detail = StrOfAuthError(detail),
                   !.keys = {"detail"}, !.branch = branch]

\* ------------------------------------------------------------- queries
\* AuthService.get_user_by_email: the committed rows matching email.lower()
get_user_by_email(email) == {u \in users : u.email = Lower(email)}

\* AuthService.get_user_by_id
get_user_by_id(user_id) == {u \in users : u.id = user_id}

\* "not user or not user.is_active" of a looked-up user
not_found_or_inactive_lax(found) == found = {}
not_found_or_inactive(found) == \A u \in found : ~u.is_active

\* User.is_locked
is_locked_inclusive(u, t) ==
    IF u.locked_until # Null THEN t <= u.locked_until ELSE FALSE
is_locked(u, t) ==
    IF u.locked_until # Null THEN t < u.locked_until ELSE FALSE

\* User.increment_failed_login_attempts
increment_failed_login_attempts_late(u, t) ==
    [u EXCEPT !.failed_login_attempts = @ + 1,
              !.locked_until = IF u.failed_login_attempts + 1 > LOCK_THRESHOLD
                               THEN t + LOCK_MINUTES ELSE @]
increment_failed_login_attempts(u, t) ==
    [u EXCEPT !.failed_login_attempts = @ + 1,
              !.locked_until = IF u.failed_login_attempts + 1 >= LOCK_THRESHOLD
                               THEN t + LOCK_MINUTES ELSE @]

\* User.reset_failed_login_attempts
reset_failed_login_attempts_keep_lock(u) ==
    [u EXCEPT !.failed_login_attempts = 0]
reset_failed_login_attempts(u) ==
    [u EXCEPT !.failed_login_attempts = 0, !.locked_until = Null]

\* Session.is_expired
is_expired(s, t) == t > s.expires_at

\* Session.is_valid
is_valid(s, t) == s.is_active /\ ~is_expired(s, t) /\ s.revoked_at = Null

\* ---------------------------------------------------------------- rows
\* a null users.totp_secret
NoSecret == ""

\* the columns the migration add_2fa_support adds to table "users", with the
\* values an INSERT that does not name them leaves
TwoFactorDefaults ==
    [totp_secret |-> NoSecret, two_factor_enabled |-> FALSE,
     backup_codes_generated_at |-> Null]

\* User(email, password_hash, full_name, role) with the column defaults
NewUser(id, email, password) ==
    [id |-> id, email |-> email, password_hash |-> hash_password(password),
     is_active |-> TRUE, failed_login_attempts |-> 0, locked_until |-> Null,
     last_login |-> Null,
     totp_secret |-> TwoFactorDefaults.totp_secret,
     two_factor_enabled |-> TwoFactorDefaults.two_factor_enabled,
     backup_codes_generated_at |-> TwoFactorDefaults.backup_codes_generated_at]

\* AuthService.create_session: the row as it is flushed, and its token
SessionToken(user_id, sid, t) == create_refresh_token(Str(user_id), Str(sid), t)

\* the hash a session row is inserted with, before its token exists
TEMP_HASH == <<"temp">>

\* Session(...) as create_session adds and flushes it to learn its id
inserted_session(user_id, sid, client, t) ==
    [id |-> sid, user_id |-> user_id, refresh_token_hash |-> TEMP_HASH,
     user_agent |-> client.ua, ip_address |-> client.ip,
     expires_at |-> t + RefreshTtl, is_active |-> TRUE, revoked_at |-> Null]

create_session_placeholder(user_id, sid, client, t) ==
    inserted_session(user_id, sid, client, t)
create_session(user_id, sid, client, t) ==
    [inserted_session(user_id, sid, client, t) EXCEPT
        !.refresh_token_hash =
            hash_refresh_token(SessionToken(user_id, sid, t))]

\* ---------------------------------------------------------------- Init
IdleReq ==
    [pc |-> "idle", raw |-> <<>>, email |-> <<>>, password |-> <<>>,
     client |-> [ua |-> "", ip |-> ""], user |-> <<>>, session |-> <<>>,
     refresh |-> NoToken, raced |-> {}, outcome |-> ""]

Init ==
    /\ now = 0
    /\ ticks = 0
    /\ users = {}
    /\ sessions = {}
    /\ nextUserId = 1
    /\ nextSessionId = 1
    /\ req = [p \in Procs |-> IdleReq]
    /\ tokens = {}
    /\ resp = NoResp
    /\ failRun = [e \in {Lower(r) : r \in RawEmails} |-> 0]
    /\ loggedOut = {}

\* ------------------------------------------------------------ Register
\* A request slot is free once its previous request has been answered.
Free(p) == req[p].pc \in {"idle", "done"}
InFlight(p) == req[p].pc \in {"checked", "flushed"}

\* the in-flight registrations of other slots for the same address
Rivals(p, email) == {q \in Procs \ {p} : InFlight(q) /\ req[q].email = email}

\* a slot that has answered keeps its outcome only for the registrations
\* that overlapped with it
Settled(r, outcome) ==
    IF r.raced = {} THEN IdleReq
    ELSE [IdleReq EXCEPT !.pc = "done", !.email = r.email, !.raced = r.raced,
                         !.outcome = outcome]

\* what the except clauses of register_user make of an IntegrityError
IntegrityErrorDetail_generic == "Registration failed"
IntegrityErrorDetail == "Email already registered"

\* POST /auth/register, up to the existence pre-check of register_user
RegisterBegin(p, raw, password, client) ==
    /\ Free(p)
    /\ LET email == validate_email(raw) IN
       IF get_user_by_email(email) # {}
       THEN /\ req' = [req EXCEPT ![p] = IdleReq]
            /\ resp' = [ErrorResp("register", 400, "Email already registered",
                                  "pre_check") EXCEPT !.email = raw]
       ELSE /\ req' = [q \in Procs |->
                    IF q = p
                    THEN [IdleReq EXCEPT !.pc = "checked", !.raw = raw,
                                         !.email = email, !.password = password,
                                         !.client = client,
                                         !.raced = Rivals(p, email)]
                    ELSE IF q \in Rivals(p, email)
                    THEN [req[q] EXCEPT !.raced = @ \cup {p}]
                    ELSE req[q]]
            /\ resp' = NoResp
    /\ UNCHANGED <<now, ticks, users, sessions, nextUserId, nextSessionId,
                   tokens, failRun, loggedOut>>

\* POST /auth/register with a body whose password is validated first: a
\* password the schema rejects is answered 422 before the handler runs
RegisterValidated(p, raw, password, client) ==
    IF validate_password(password) # NoPasswordError
    THEN /\ Free(p)
         /\ resp' = [ErrorResp("register", 422, validate_password(password),
                               "validation")
                        EXCEPT !.email = raw, !.password = password]
         /\ UNCHANGED <<now, ticks, users, sessions, nextUserId, nextSessionId,
                        req, tokens, failRun, loggedOut>>
    ELSE RegisterBegin(p, raw, password, client)

\* the unique index on users.email: a committed row with the same address
UniqueViolation(email) == \E u \in users : u.email = email

\* register_user from hash_password to create_session: INSERT of the user
\* row (flush), then INSERT of its first session.  The INSERT waits while
\* another transaction holds an uncommitted row with the same address.
RegisterFlush(p) ==
    /\ req[p].pc = "checked"
    /\ \A q \in Procs \ {p} : ~(req[q].pc = "flushed" /\ req[q].email = req[p].email)
    /\ IF UniqueViolation(req[p].email)
       THEN \* IntegrityError: rollback, AuthError
            /\ req' = [req EXCEPT ![p] = Settled(req[p], IntegrityErrorDetail)]
            /\ resp' = [ErrorResp("register", 400, IntegrityErrorDetail,
                                  "integrity_error") EXCEPT !.email = req[p].raw]
            /\ nextUserId' = nextUserId + 1
            /\ UNCHANGED nextSessionId
       ELSE /\ nextSessionId <= MaxSessions
            /\ req' = [req EXCEPT
                    ![p].pc = "flushed",
                    ![p].user = NewUser(nextUserId, req[p].email, req[p].password),
                    ![p].session = create_session(nextUserId, nextSessionId,
                                                  req[p].client, now),
                    ![p].refresh = SessionToken(nextUserId, nextSessionId, now)]
            /\ resp' = NoResp
            /\ nextUserId' = nextUserId + 1
            /\ nextSessionId' = nextSessionId + 1
    /\ UNCHANGED <<now, ticks, users, sessions, tokens, failRun, loggedOut>>

\* the body returned by the register route: AuthSuccessResponse
RegisterBodyKeys == {"message", "user"}

\* the tokens of a service result that the response body carries to the client
Delivered(keys, toks) ==
    {t \in toks : \/ t.type = "access" /\ "access_token" \in keys
                  \/ t.type = "refresh" /\ "refresh_token" \in keys}

\* register_user from commit to return, and the route's response
RegisterCommit(p) ==
    /\ req[p].pc = "flushed"
    /\ LET user == req[p].user
           session == req[p].session
           refresh_token == req[p].refresh
           access_token == create_access_token(Str(user.id), now)
       IN /\ users' = users \cup {user}
          /\ sessions' = sessions \cup {session}
          /\ tokens' = tokens \cup Delivered(RegisterBodyKeys,
                                             {access_token, refresh_token})
          /\ resp' = [NoResp EXCEPT !.op = "register", !.ok = TRUE,
                                    !.status = 201, !.keys = RegisterBodyKeys,
                                    !.access = access_token,
                                    !.refresh = refresh_token,
                                    !.email = req[p].raw, !.user_id = user.id]
    /\ req' = [req EXCEPT ![p] = Settled(req[p], "ok")]
    /\ UNCHANGED <<now, ticks, nextUserId, nextSessionId, failRun, loggedOut>>

\* register_user from commit to return when a step after the commit raises
\* (db.refresh, create_access_token, model_validate): "except Exception"
\* rolls back a transaction that is already committed and raises
\* AuthError("Registration failed")
RegisterCommitFault(p) ==
    /\ req[p].pc = "flushed"
    /\ users' = users \cup {req[p].user}
    /\ sessions' = sessions \cup {req[p].session}
    /\ resp' = [ErrorResp("register", 400, "Registration failed",
                          "after_commit")
                   EXCEPT !.email = req[p].raw, !.user_id = req[p].user.id]
    /\ req' = [req EXCEPT ![p] = Settled(req[p], "failed")]
    /\ UNCHANGED <<now, ticks, nextUserId, nextSessionId, tokens, failRun,
                   loggedOut>>

\* --------------------------------------------------------------- Login
\* the checks of login_user in order; "" when all pass
LoginFailure_enum(found, password) ==
    IF found = {} THEN [detail |-> "User not found", branch |-> "no_user"]
    ELSE LET user == CHOOSE u \in found : TRUE IN
         IF ~verify_password(password, user.password_hash)
         THEN [detail |-> "Invalid credentials", branch |-> "bad_password"]
         ELSE IF ~user.is_active
         THEN [detail |-> "Account is deactivated", branch |-> "inactive"]
         ELSE [detail |-> "", branch |-> ""]
LoginFailure_activefirst(found, password) ==
    IF found = {} THEN [detail |-> "Invalid credentials", branch |-> "no_user"]
    ELSE LET user == CHOOSE u \in found : TRUE IN
         IF ~user.is_active
         THEN [detail |-> "Account is deactivated", branch |-> "inactive"]
         ELSE IF ~verify_password(password, user.password_hash)
         THEN [detail |-> "Invalid credentials", branch |-> "bad_password"]
         ELSE [detail |-> "", branch |-> ""]
LoginFailure(found, password) ==
    IF found = {} THEN [detail |-> "Invalid credentials", branch |-> "no_user"]
    ELSE LET user == CHOOSE u \in found : TRUE IN
         IF ~verify_password(password, user.password_hash)
         THEN [detail |-> "Invalid credentials", branch |-> "bad_password"]
         ELSE IF ~user.is_active
         THEN [detail |-> "Account is deactivated", branch |-> "inactive"]
         ELSE [detail |-> "", branch |-> ""]

\* POST /auth/login: login_user and the route's response
Login(raw, password, client) ==
    LET email == validate_email(raw)
        found == get_user_by_email(email)
        failure == LoginFailure(found, password)
    IN IF failure.branch # ""
       THEN /\ resp' = [ErrorResp("login", 401, failure.detail, failure.branch)
                            EXCEPT !.email = Lower(raw), !.password = password]
            /\ UNCHANGED <<users, sessions, nextSessionId, tokens>>
       ELSE LET user == CHOOSE u \in found : TRUE
                session == create_session(user.id, nextSessionId, client, now)
                refresh_token == SessionToken(user.id, nextSessionId, now)
                access_token == create_access_token(Str(user.id), now)
            IN /\ nextSessionId <= MaxSessions
               /\ users' = (users \ {user}) \cup {[user EXCEPT !.last_login = now]}
               /\ sessions' = sessions \cup {session}
               /\ nextSessionId' = nextSessionId + 1
               /\ tokens' = tokens \cup Delivered(TokenKeys,
                                                  {access_token, refresh_token})
               /\ resp' = [NoResp EXCEPT !.op = "login", !.ok = TRUE,
                                         !.status = 200, !.keys = TokenKeys,
                                         !.access = access_token,
                                         !.refresh = refresh_token,
                                         !.email = Lower(raw),
                                         !.password = password,
                                         !.user_id = user.id]

LoginStep(raw, password, client) ==
    /\ Login(raw, password, client)
    /\ UNCHANGED <<now, ticks, nextUserId, req>>

\* login_user when a step after the commit raises: the rollback finds the
\* transaction committed and AuthError("Login failed") is raised
LoginFault(raw, password, client) ==
    LET email == validate_email(raw)
        found == get_user_by_email(email)
        failure == LoginFailure(found, password)
    IN /\ failure.branch = ""
       /\ nextSessionId <= MaxSessions
       /\ LET user == CHOOSE u \in found : TRUE
              session == create_session(user.id, nextSessionId, client, now)
          IN /\ users' = (users \ {user})
                            \cup {[user EXCEPT !.last_login = now]}
             /\ sessions' = sessions \cup {session}
             /\ nextSessionId' = nextSessionId + 1
             /\ resp' = [ErrorResp("login", 401, "Login failed", "after_commit")
                            EXCEPT !.email = Lower(raw), !.password = password,
                                   !.user_id = user.id]
       /\ UNCHANGED <<now, ticks, nextUserId, req, tokens>>

\* ------------------------------------------------- VerifyAccessToken
\* AuthService.verify_access_token
verify_access_token(token, t) ==
    LET decoded == decode_token(token, t) IN
    IF ~decoded.ok
    THEN [ok |-> FALSE, detail |-> decoded.detail, branch |-> "decode", user_id |-> 0]
    ELSE IF ~verify_token_type(token, "access")
    THEN [ok |-> FALSE, detail |-> TokenTypeDetail("access", token.type),
          branch |-> "type", user_id |-> 0]
    ELSE LET user_id == ToInt(token.sub) IN
         IF not_found_or_inactive(get_user_by_id(user_id))
         THEN [ok |-> FALSE, detail |-> "User not found or inactive",
               branch |-> "user", user_id |-> 0]
         ELSE [ok |-> TRUE, detail |-> "", branch |-> "", user_id |-> user_id]

\* the session count of get_user_profile
total_sessions_any(user_id, t) ==
    Cardinality({s \in sessions : s.user_id = user_id /\ s.expires_at > t})
total_sessions(user_id, t) ==
    Cardinality({s \in sessions :
                    s.user_id = user_id /\ s.is_active /\ s.expires_at > t})

\* GET /auth/me: get_current_user_id, then get_user_profile
Me(token) ==
    /\ LET verified == verify_access_token(token, now) IN
       IF ~verified.ok
       THEN resp' = [ErrorResp("me", 401, verified.detail, verified.branch)
                        EXCEPT !.presented = token]
       ELSE resp' = [NoResp EXCEPT
                        !.op = "me", !.ok = TRUE, !.status = 200,
                        !.keys = {"id", "email", "total_sessions"},
                        !.presented = token, !.user_id = verified.user_id,
                        !.total_sessions = total_sessions(verified.user_id, now)]
    /\ UNCHANGED <<now, ticks, users, sessions, nextUserId, nextSessionId,
                   req, tokens>>

\* -------------------------------------------------------------- Logout
\* the rows of logout_user's query, revoked
RevokeAll_overwrite(user_id, t) ==
    {IF s.user_id = user_id
     THEN [s EXCEPT !.is_active = FALSE, !.revoked_at = t]
     ELSE s : s \in sessions}
RevokeAll(user_id, t) ==
    {IF s.user_id = user_id /\ s.is_active
     THEN [s EXCEPT !.is_active = FALSE, !.revoked_at = t]
     ELSE s : s \in sessions}

\* AuthService.logout_user: the else branch calls itself with
\* revoke_all_sessions=True
logout_user_single(user_id, revoke_all_sessions, t) ==
    IF revoke_all_sessions THEN RevokeAll(user_id, t)
    ELSE LET active == {s \in sessions : s.user_id = user_id /\ s.is_active}
             current == {s \in active : \A r \in active : s.id >= r.id}
         IN (sessions \ current) \cup
               {[s EXCEPT !.is_active = FALSE, !.revoked_at = t] : s \in current}
logout_user(user_id, revoke_all_sessions, t) ==
    IF revoke_all_sessions THEN RevokeAll(user_id, t)
    ELSE RevokeAll(user_id, t)

\* POST /auth/logout: get_current_user_id, then logout_user
Logout(token, revoke_all_sessions) ==
    /\ LET verified == verify_access_token(token, now) IN
       IF ~verified.ok
       THEN /\ resp' = [ErrorResp("logout", 401, verified.detail, verified.branch)
                            EXCEPT !.presented = token]
            /\ UNCHANGED sessions
       ELSE /\ sessions' = logout_user(verified.user_id, revoke_all_sessions, now)
            /\ resp' = [NoResp EXCEPT
                            !.op = "logout", !.ok = TRUE, !.status = 200,
                            !.keys = {"message"}, !.presented = token,
                            !.user_id = verified.user_id,
                            !.branch = IF revoke_all_sessions THEN "all" ELSE "one"]
    /\ UNCHANGED <<now, ticks, users, nextUserId, nextSessionId, req, tokens>>

\* AuthService.logout_user called with a user id
LogoutUser(user_id, revoke_all_sessions) ==
    /\ sessions' = logout_user(user_id, revoke_all_sessions, now)
    /\ resp' = [NoResp EXCEPT
                    !.op = "logout_user", !.ok = TRUE, !.user_id = user_id,
                    !.branch = IF revoke_all_sessions THEN "all" ELSE "one"]
    /\ UNCHANGED <<now, ticks, users, nextUserId, nextSessionId, req, tokens>>

\* one call of logout_user with revoke_all_sessions=True: when the query or
\* the commit raises, the except block rolls back and returns False
revoke_all_result(user_id, raises, t) ==
    IF raises THEN [sessions |-> sessions, returned |-> FALSE]
    ELSE [sessions |-> RevokeAll(user_id, t), returned |-> TRUE]

\* logout_user with the outcome of its statements: the else branch awaits the
\* inner call without reading what it returns, commits and returns True
logout_user_result(user_id, revoke_all_sessions, raises, t) ==
    IF revoke_all_sessions THEN revoke_all_result(user_id, raises, t)
    ELSE [sessions |-> revoke_all_result(user_id, raises, t).sessions,
          returned |-> TRUE]

\* AuthService.logout_user called while the database refuses the revoking
\* statements
LogoutUserFault(user_id, revoke_all_sessions) ==
    /\ LET result == logout_user_result(user_id, revoke_all_sessions, TRUE, now)
       IN /\ sessions' = result.sessions
          /\ resp' = [NoResp EXCEPT
                          !.op = "logout_user", !.ok = result.returned,
                          !.user_id = user_id,
                          !.branch = IF revoke_all_sessions THEN "all" ELSE "one"]
    /\ UNCHANGED <<now, ticks, users, nextUserId, nextSessionId, req, tokens>>

\* AuthService.revoke_session
RevokeSession(user_id, session_id) ==
    /\ LET found == {s \in sessions : s.id = session_id /\ s.user_id = user_id
                                       /\ s.is_active}
       IN /\ sessions' = (sessions \ found) \cup
                 {[s EXCEPT !.is_active = FALSE, !.revoked_at = now] : s \in found}
          /\ resp' = [NoResp EXCEPT !.op = "revoke_session", !.ok = (found # {}),
                                    !.user_id = user_id]
    /\ UNCHANGED <<now, ticks, users, nextUserId, nextSessionId, req, tokens>>

\* ------------------------------------------------- RefreshAccessToken
\* payload.get("jti"), then "int(jti) if jti else None"
session_id_of(token) == IF token.jti = NoJti THEN Null ELSE ToInt(token.jti)

\* the session query of refresh_access_token
RefreshSessionQuery_any(user_id, session_id) ==
    {s \in sessions : s.user_id = user_id /\ s.id = session_id}
RefreshSessionQuery(user_id, session_id) ==
    {s \in sessions : s.user_id = user_id /\ s.id = session_id /\ s.is_active}

\* the checks of refresh_access_token in order
refresh_check(token, t) ==
    LET decoded == decode_token(token, t) IN
    IF ~decoded.ok
    THEN [ok |-> FALSE, detail |-> decoded.detail, branch |-> "decode"]
    ELSE IF ~verify_token_type(token, "refresh")
    THEN [ok |-> FALSE, detail |-> TokenTypeDetail("refresh", token.type),
          branch |-> "type"]
    ELSE LET user_id == ToInt(token.sub)
             found == RefreshSessionQuery(user_id, session_id_of(token))
         IN IF found = {} \/ \E s \in found : is_expired(s, t)
            THEN [ok |-> FALSE, detail |-> "Invalid refresh token",
                  branch |-> "session"]
            ELSE IF \E s \in found :
                        ~verify_refresh_token(token, s.refresh_token_hash)
            THEN [ok |-> FALSE, detail |-> "Invalid refresh token",
                  branch |-> "hash"]
            ELSE IF not_found_or_inactive(get_user_by_id(user_id))
            THEN [ok |-> FALSE, detail |-> "User not found or inactive",
                  branch |-> "user"]
            ELSE [ok |-> TRUE, detail |-> "", branch |-> ""]

\* the session row after a successful refresh: the route always passes a
\* user agent and an address ("" when the request has none)
refreshed_revoking(s, client) ==
    [s EXCEPT !.user_agent = client.ua, !.ip_address = client.ip,
              !.is_active = FALSE]
refreshed_rotating(s, client) ==
    [s EXCEPT !.user_agent = client.ua, !.ip_address = client.ip,
              !.refresh_token_hash = TEMP_HASH]
refreshed(s, client) ==
    [s EXCEPT !.user_agent = IF client.ua # None THEN client.ua ELSE @,
              !.ip_address = IF client.ip # None THEN client.ip ELSE @]

\* POST /auth/refresh: refresh_access_token and the route's response
Refresh(token, client) ==
    /\ LET checked == refresh_check(token, now) IN
       IF ~checked.ok
       THEN /\ resp' = [ErrorResp("refresh", 401, checked.detail, checked.branch)
                            EXCEPT !.presented = token]
            /\ UNCHANGED <<sessions, tokens>>
       ELSE LET user_id == ToInt(token.sub)
                found == RefreshSessionQuery(user_id, session_id_of(token))
                access_token == create_access_token(Str(user_id), now)
            IN /\ sessions' = (sessions \ found) \cup
                                  {refreshed(s, client) : s \in found}
               /\ tokens' = tokens \cup Delivered(AccessKeys, {access_token})
               /\ resp' = [NoResp EXCEPT
                              !.op = "refresh", !.ok = TRUE, !.status = 200,
                              !.keys = AccessKeys, !.access = access_token,
                              !.presented = token, !.user_id = user_id]
    /\ UNCHANGED <<now, ticks, users, nextUserId, nextSessionId, req>>

\* refresh_access_token as two steps of one request slot, each with its own
\* database session: the checks and the load of the session row, then the
\* UPDATE of the columns the request changed, the commit and the answer.
\* A slot that has answered keeps its request until the next refresh begins.
\* raced names the slots whose refresh of the same token ran beside this
\* one, and Another when one of them ran a second refresh beside it.
Another == 0
Refreshing(p) == req[p].pc = "refreshing"

RefreshBegin(p, token, client) ==
    /\ req[p].pc \in {"idle", "done", "refreshed"}
    /\ LET checked == refresh_check(token, now) IN
       IF ~checked.ok
       THEN /\ resp' = [ErrorResp("refresh", 401, checked.detail, checked.branch)
                            EXCEPT !.presented = token]
            /\ req' = [req EXCEPT ![p] = IdleReq]
       ELSE LET found == RefreshSessionQuery(ToInt(token.sub),
                                             session_id_of(token))
            IN /\ req' = [q \in Procs |->
                    IF q = p
                    THEN [IdleReq EXCEPT
                             !.pc = "refreshing", !.refresh = token,
                             !.client = client,
                             !.session = CHOOSE s \in found : TRUE,
                             !.raced = {r \in Procs \ {p} :
                                          /\ Refreshing(r)
                                          /\ req[r].refresh = token}]
                    ELSE IF Refreshing(q) /\ req[q].refresh = token
                    THEN [req[q] EXCEPT !.raced =
                             IF p \in @ THEN @ \cup {Another}
                                        ELSE @ \cup {p}]
                    ELSE IF req[q].pc = "refreshed" THEN IdleReq
                    ELSE req[q]]
               /\ resp' = NoResp
    /\ UNCHANGED <<now, ticks, users, sessions, nextUserId, nextSessionId,
                   tokens, failRun, loggedOut>>

\* the UPDATE flushed at commit: the columns whose value the request changed
\* on the row it loaded, written to the row as it now stands
flushed_update_stale(loaded, client, s) ==
    [loaded EXCEPT !.user_agent = client.ua]
flushed_update(loaded, client, s) ==
    LET assigned == refreshed(loaded, client)
    IN [s EXCEPT !.user_agent = IF assigned.user_agent # loaded.user_agent
                                THEN assigned.user_agent ELSE @,
                 !.ip_address = IF assigned.ip_address # loaded.ip_address
                                THEN assigned.ip_address ELSE @]

RefreshCommit(p) ==
    /\ Refreshing(p)
    /\ LET loaded == req[p].session
           client == req[p].client
           token == req[p].refresh
           access_token == create_access_token(token.sub, now)
       IN /\ sessions' = {IF s.id = loaded.id
                          THEN flushed_update(loaded, client, s) ELSE s :
                             s \in sessions}
          /\ tokens' = tokens \cup Delivered(AccessKeys, {access_token})
          /\ resp' = [NoResp EXCEPT
                         !.op = "refresh", !.ok = TRUE, !.status = 200,
                         !.keys = AccessKeys, !.access = access_token,
                         !.presented = token, !.user_id = ToInt(token.sub)]
          /\ req' = [req EXCEPT ![p].pc = "refreshed", ![p].outcome = "ok"]
    /\ UNCHANGED <<now, ticks, users, nextUserId, nextSessionId, failRun,
                   loggedOut>>

\* ----------------------------------------------- CleanupExpiredSessions
\* the rows matched by the DELETE of cleanup_expired_sessions
expired_sessions_or_revoked(t) ==
    {s \in sessions : s.expires_at <= t \/ ~s.is_active}
expired_sessions(t) == {s \in sessions : s.expires_at <= t}

\* AuthService.cleanup_expired_sessions
Cleanup ==
    /\ LET expired == expired_sessions(now) IN
       /\ sessions' = sessions \ expired
       /\ resp' = [NoResp EXCEPT !.op = "cleanup", !.ok = TRUE,
                                 !.count = Cardinality(expired)]
    /\ UNCHANGED <<now, ticks, users, nextUserId, nextSessionId, req, tokens>>

\* ---------------------------------------------------------- environment
\* an administrator clears users.is_active
Deactivate(user_id) ==
    /\ \E u \in users : u.id = user_id /\ u.is_active
    /\ users' = {IF u.id = user_id THEN [u EXCEPT !.is_active = FALSE] ELSE u :
                    u \in users}
    /\ resp' = NoResp
    /\ UNCHANGED <<now, ticks, sessions, nextUserId, nextSessionId, req, tokens>>

\* a caller of User.increment_failed_login_attempts other than the service,
\* committing the row
IncrementFailed(user_id) ==
    /\ \E u \in users : u.id = user_id /\ u.failed_login_attempts < MaxFailures
    /\ users' = {IF u.id = user_id THEN increment_failed_login_attempts(u, now)
                 ELSE u : u \in users}
    /\ resp' = [NoResp EXCEPT !.op = "increment_failed", !.user_id = user_id]
    /\ UNCHANGED <<now, ticks, sessions, nextUserId, nextSessionId, req, tokens>>

\* a caller of User.reset_failed_login_attempts, committing the row
ResetFailed(user_id) ==
    /\ \E u \in users : u.id = user_id
    /\ users' = {IF u.id = user_id THEN reset_failed_login_attempts(u)
                 ELSE u : u \in users}
    /\ resp' = [NoResp EXCEPT !.op = "reset_failed", !.user_id = user_id]
    /\ UNCHANGED <<now, ticks, sessions, nextUserId, nextSessionId, req, tokens>>

\* a reader of the property User.is_locked
IsLocked(user_id) ==
    /\ \E u \in users :
          /\ u.id = user_id
          /\ resp' = [NoResp EXCEPT !.op = "is_locked", !.user_id = user_id,
                                    !.ok = is_locked(u, now)]
    /\ UNCHANGED <<now, ticks, users, sessions, nextUserId, nextSessionId, req,
                   tokens>>

\* a reader of the property Session.is_valid
IsValid(session_id) ==
    /\ \E s \in sessions :
          /\ s.id = session_id
          /\ resp' = [NoResp EXCEPT !.op = "is_valid",
                                    !.session_id = session_id,
                                    !.ok = is_valid(s, now)]
    /\ UNCHANGED <<now, ticks, users, sessions, nextUserId, nextSessionId, req,
                   tokens>>

\* ------------------------------------------------- two-factor service
\* the attributes an instance of class User has: the columns and the
\* relationship the class maps, those of Base, and its properties and methods
UserAttributes ==
    {"id", "created_at", "updated_at", "email", "password_hash", "full_name",
     "role", "is_active", "email_verified", "email_verification_token",
     "email_verification_sent_at", "failed_login_attempts", "locked_until",
     "password_reset_token", "password_reset_sent_at", "password_changed_at",
     "profile_completed", "terms_accepted", "terms_accepted_at",
     "privacy_policy_accepted", "last_login", "last_password_change",
     "sessions", "is_locked", "should_force_password_change",
     "increment_failed_login_attempts", "reset_failed_login_attempts"}

\* the exceptions the service lets escape, and a call that returned
ValueError(message) == <<"ValueError", message>>
AttributeError(name) == <<"AttributeError", name>>
NoError == <<>>

\* "except Exception: await self.db.rollback(); raise": nothing is written
Raised(error) ==
    [error |-> error, users |-> users, secret |-> NoSecret, codes |-> <<>>]

\* pyotp.random_base32()
Secrets == {"JBSWY3DPEHPK3PXP", "KRSXG5CTMVRXEZLU"}

\* pyotp.TOTP(secret).at(...): the code an authenticator shows for a secret
totp_now(secret) ==
    IF secret = "JBSWY3DPEHPK3PXP" THEN <<"1", "2", "3", "4", "5", "6">>
    ELSE <<"6", "5", "4", "3", "2", "1">>

Digits == {"0", "1", "2", "3", "4", "5", "6", "7", "8", "9"}
NoCode == <<>>
\* codes as a client types them
TotpCodes ==
    {NoCode, <<"1", "2", "3", " ", "4", "5", "6">>,
     <<"0", "0", "0", "0", "0", "0">>}

\* TwoFactorService.verify_totp_code
NotFormatting(c) == c \notin {" ", "-"}
verify_totp_code(secret, code) ==
    IF secret = NoSecret \/ code = NoCode THEN FALSE
    ELSE LET stripped == SelectSeq(code, NotFormatting)
         IN  IF Len(stripped) # 6 \/ \E i \in 1..Len(stripped) :
                                        stripped[i] \notin Digits
             THEN FALSE
             ELSE stripped = totp_now(secret)

\* TwoFactorService.generate_backup_codes
BACKUP_CODE_COUNT == 10

\* secrets.token_hex(4): eight hexadecimal digits, the i-th draw of a run
Seeds == {"a", "f"}
HexDigits ==
    <<"0", "1", "2", "3", "4", "5", "6", "7", "8", "9", "a", "b", "c", "d",
      "e", "f">>
token_hex(seed, i) ==
    <<seed, "0", "b", "e", "e", "f", "0", HexDigits[(i % 16) + 1]>>

Upper(c) ==
    CASE c = "a" -> "A" [] c = "b" -> "B" [] c = "c" -> "C" [] c = "d" -> "D"
      [] c = "e" -> "E" [] c = "f" -> "F" [] OTHER -> c

generate_backup_codes(count, seed) ==
    [i \in 1..count |->
        LET code == [k \in 1..8 |-> Upper(token_hex(seed, i)[k])]
        IN  SubSeq(code, 1, 4) \o <<"-">> \o SubSeq(code, 5, 8)]

\* TwoFactorService.initialize_2fa_setup
initialize_2fa_setup(user_id, secret) ==
    LET found == get_user_by_id(user_id)
    IN  IF found = {} THEN Raised(ValueError("User not found"))
        ELSE IF "two_factor_enabled" \notin UserAttributes
        THEN Raised(AttributeError("two_factor_enabled"))
        ELSE IF \E u \in found : u.two_factor_enabled
        THEN Raised(ValueError("2FA is already enabled for this user"))
        ELSE [error |-> NoError,
              users |-> {IF u.id = user_id
                         THEN [u EXCEPT !.totp_secret = secret] ELSE u :
                            u \in users},
              secret |-> secret, codes |-> <<>>]

\* TwoFactorService.complete_2fa_setup
complete_2fa_setup(user_id, totp_code, seed, t) ==
    LET found == get_user_by_id(user_id)
    IN  IF found = {} THEN Raised(ValueError("User not found"))
        ELSE IF "totp_secret" \notin UserAttributes
        THEN Raised(AttributeError("totp_secret"))
        ELSE IF \E u \in found : u.totp_secret = NoSecret
        THEN Raised(ValueError(
                 "2FA setup not initialized. Please start setup first."))
        ELSE IF "two_factor_enabled" \notin UserAttributes
        THEN Raised(AttributeError("two_factor_enabled"))
        ELSE IF \E u \in found : u.two_factor_enabled
        THEN Raised(ValueError("2FA is already enabled for this user"))
        ELSE IF \E u \in found : ~verify_totp_code(u.totp_secret, totp_code)
        THEN Raised(ValueError(
                 "Invalid TOTP code. Please check your authenticator app."))
        ELSE [error |-> NoError,
              users |-> {IF u.id = user_id
                         THEN [u EXCEPT !.two_factor_enabled = TRUE,
                                        !.backup_codes_generated_at = t]
                         ELSE u : u \in users},
              secret |-> NoSecret,
              codes |-> generate_backup_codes(BACKUP_CODE_COUNT, seed)]

\* TwoFactorService.disable_2fa
disable_2fa(user_id, current_password, totp_code) ==
    LET found == get_user_by_id(user_id)
    IN  IF found = {} THEN Raised(ValueError("User not found"))
        ELSE IF "two_factor_enabled" \notin UserAttributes
        THEN Raised(AttributeError("two_factor_enabled"))
        ELSE IF \E u \in found : ~u.two_factor_enabled
        THEN Raised(ValueError("2FA is not enabled for this user"))
        ELSE IF \E u \in found :
                   ~verify_password(current_password, u.password_hash)
        THEN Raised(ValueError("Invalid password"))
        ELSE IF totp_code # NoCode
                /\ \E u \in found : ~verify_totp_code(u.totp_secret, totp_code)
        THEN Raised(ValueError("Invalid TOTP code"))
        ELSE [error |-> NoError,
              users |-> {IF u.id = user_id
                         THEN [u EXCEPT !.two_factor_enabled = FALSE,
                                        !.totp_secret = NoSecret,
                                        !.backup_codes_generated_at = Null]
                         ELSE u : u \in users},
              secret |-> NoSecret, codes |-> <<>>]

\* TwoFactorService.verify_backup_code
verify_backup_code(user_id, backup_code) == FALSE

\* TwoFactorService.regenerate_backup_codes
regenerate_backup_codes(user_id, current_password, seed, t) ==
    LET found == get_user_by_id(user_id)
    IN  IF found = {} THEN Raised(ValueError("User not found"))
        ELSE IF "two_factor_enabled" \notin UserAttributes
        THEN Raised(AttributeError("two_factor_enabled"))
        ELSE IF \E u \in found : ~u.two_factor_enabled
        THEN Raised(ValueError("2FA is not enabled for this user"))
        ELSE IF \E u \in found :
                   ~verify_password(current_password, u.password_hash)
        THEN Raised(ValueError("Invalid password"))
        ELSE [error |-> NoError,
              users |-> {IF u.id = user_id
                         THEN [u EXCEPT !.backup_codes_generated_at = t]
                         ELSE u : u \in users},
              secret |-> NoSecret,
              codes |-> generate_backup_codes(BACKUP_CODE_COUNT, seed)]

\* the answer of a two-factor operation, as its caller sees it
TwoFactorResp(op, user_id, r) ==
    [NoResp EXCEPT !.op = op, !.user_id = user_id, !.ok = (r.error = NoError),
                   !.error = r.error, !.secret = r.secret, !.codes = r.codes]

InitializeSetup(user_id) ==
    /\ \E secret \in Secrets :
          LET r == initialize_2fa_setup(user_id, secret)
          IN  /\ users' = r.users
              /\ resp' = TwoFactorResp("initialize_2fa_setup", user_id, r)
    /\ UNCHANGED <<now, ticks, sessions, nextUserId, nextSessionId, req, tokens>>

CompleteSetup(user_id, totp_code) ==
    /\ \E seed \in Seeds :
          LET r == complete_2fa_setup(user_id, totp_code, seed, now)
          IN  /\ users' = r.users
              /\ resp' = [TwoFactorResp("complete_2fa_setup", user_id, r)
                             EXCEPT !.code = totp_code]
    /\ UNCHANGED <<now, ticks, sessions, nextUserId, nextSessionId, req, tokens>>

Disable(user_id, current_password, totp_code) ==
    /\ LET r == disable_2fa(user_id, current_password, totp_code)
       IN  /\ users' = r.users
           /\ resp' = [TwoFactorResp("disable_2fa", user_id, r)
                          EXCEPT !.code = totp_code,
                                 !.password = current_password]
    /\ UNCHANGED <<now, ticks, sessions, nextUserId, nextSessionId, req, tokens>>

RegenerateBackupCodes(user_id, current_password) ==
    /\ \E seed \in Seeds :
          LET r == regenerate_backup_codes(user_id, current_password, seed, now)
          IN  /\ users' = r.users
              /\ resp' = [TwoFactorResp("regenerate_backup_codes", user_id, r)
                             EXCEPT !.password = current_password]
    /\ UNCHANGED <<now, ticks, sessions, nextUserId, nextSessionId, req, tokens>>

\* a caller of generate_backup_codes other than the service
GenerateBackupCodes ==
    /\ \E seed \in Seeds :
          resp' = [NoResp EXCEPT !.op = "generate_backup_codes", !.ok = TRUE,
                      !.codes = generate_backup_codes(BACKUP_CODE_COUNT, seed)]
    /\ UNCHANGED <<now, ticks, users, sessions, nextUserId, nextSessionId, req,
                   tokens>>

VerifyBackupCode(user_id, backup_code) ==
    /\ resp' = [NoResp EXCEPT !.op = "verify_backup_code", !.user_id = user_id,
                              !.code = backup_code,
                              !.ok = verify_backup_code(user_id, backup_code)]
    /\ UNCHANGED <<now, ticks, users, sessions, nextUserId, nextSessionId, req,
                   tokens>>

\* the instants at which some token, session or lock changes its standing
Deadlines ==
    {s.expires_at : s \in sessions} \cup {t.exp : t \in tokens}
        \cup {u.locked_until : u \in {v \in users : v.locked_until # Null}}

\* the clock moves on while no request is being served: by a minute, or to
\* the next deadline of some token, session or lock
Tick ==
    /\ ticks < MaxTicks
    /\ \A p \in Procs : ~InFlight(p)
    /\ \E t \in {now + 1} \cup Deadlines :
          /\ t > now
          /\ now' = t
    /\ ticks' = ticks + 1
    /\ resp' = NoResp
    /\ UNCHANGED <<users, sessions, nextUserId, nextSessionId, req, tokens>>

\* ------------------------------------------------------------ observers
\* failRun counts, per registered address, the failed logins since the last
\* successful one (it stops counting at LOCK_THRESHOLD)
CountFailures ==
    failRun' =
        IF resp'.op = "login" /\ get_user_by_email(resp'.email) # {}
        THEN [failRun EXCEPT ![resp'.email] =
                 IF resp'.ok THEN 0
                 ELSE IF @ < LOCK_THRESHOLD THEN @ + 1 ELSE @]
        ELSE failRun

\* loggedOut holds the access tokens that were issued to a user before a
\* logout of that user and have not been issued again since
NoteLogout ==
    loggedOut' =
        IF resp'.op = "logout" /\ resp'.ok
        THEN loggedOut \cup {t \in tokens : t.type = "access"
                                            /\ ToInt(t.sub) = resp'.user_id}
        ELSE loggedOut \ {resp'.access}

\* ------------------------------------------------------- specification
\* registrations served by the request slots ps
Register(ps, clients) ==
    \/ \E p \in ps, raw \in RawEmails, password \in ValidPasswords,
          client \in clients : RegisterBegin(p, raw, password, client)
    \/ \E p \in ps : RegisterFlush(p)
    \/ \E p \in ps : RegisterCommit(p)

\* the tokens a client can present: those it was given, and a malformed one
Presentable == tokens \cup {NoToken}

\* the client of registrations and logins
FirstClient == {[ua |-> "", ip |-> ""]}

\* requests served one at a time
Next ==
    \/ Register({1}, FirstClient)
    \/ \E raw \in RawEmails, password \in Passwords, client \in FirstClient :
          LoginStep(raw, password, client) /\ NoteLogout /\ UNCHANGED failRun
    \/ \E token \in Presentable, client \in Clients :
          Refresh(token, client) /\ NoteLogout /\ UNCHANGED failRun
    \/ \E token \in Presentable : Me(token) /\ UNCHANGED <<failRun, loggedOut>>
    \/ \E token \in Presentable, all \in BOOLEAN :
          Logout(token, all) /\ NoteLogout /\ UNCHANGED failRun
    \/ \E u \in users, s \in sessions :
          RevokeSession(u.id, s.id) /\ UNCHANGED <<failRun, loggedOut>>
    \/ Cleanup /\ UNCHANGED <<failRun, loggedOut>>
    \/ \E u \in users : Deactivate(u.id) /\ UNCHANGED <<failRun, loggedOut>>
    \/ Tick /\ UNCHANGED <<failRun, loggedOut>>

Spec == Init /\ [][Next]_vars

\* registrations served concurrently by all request slots
NextRace ==
    \/ Register(Procs, Clients)
    \/ Tick /\ UNCHANGED <<failRun, loggedOut>>

SpecRace == Init /\ [][NextRace]_vars

\* registrations and logins, with the failed logins counted
NextLockout ==
    \/ Register({1}, FirstClient)
    \/ \E raw \in RawEmails, password \in Passwords, client \in FirstClient :
          LoginStep(raw, password, client) /\ CountFailures /\ UNCHANGED loggedOut

SpecLockout == Init /\ [][NextLockout]_vars

\* ---------------------------------------------------- token round trip
SubjectIds == {1, 2, 12}
\* expires_delta in minutes; Null is None
Deltas == {Null, 0, 1, 2}

\* create_access_token(subject, expires_delta)
IssueAccess(subject, expires_delta) ==
    /\ LET token == create_access_token_delta(subject, expires_delta, now) IN
       /\ tokens' = {token}
       /\ resp' = [NoResp EXCEPT !.op = "issue", !.ok = TRUE, !.access = token,
                                 !.user_id = subject]
    /\ UNCHANGED <<now, ticks, users, sessions, nextUserId, nextSessionId, req,
                   failRun, loggedOut>>

\* decode_token(token): the payload, or the AuthError
Decode(token) ==
    /\ LET decoded == decode_token(token, now) IN
       resp' = IF decoded.ok
               THEN [NoResp EXCEPT !.op = "decode", !.ok = TRUE,
                                   !.access = token, !.presented = token]
               ELSE [ErrorResp("decode", 401, decoded.detail, "decode")
                        EXCEPT !.presented = token]
    /\ UNCHANGED <<now, ticks, users, sessions, nextUserId, nextSessionId, req,
                   tokens, failRun, loggedOut>>

\* a minute passes
TickToken ==
    /\ ticks < MaxTokenTicks
    /\ now' = now + 1
    /\ ticks' = ticks + 1
    /\ resp' = NoResp
    /\ UNCHANGED <<users, sessions, nextUserId, nextSessionId, req, tokens,
                   failRun, loggedOut>>

NextToken ==
    \/ \E subject \in SubjectIds, expires_delta \in Deltas :
          IssueAccess(subject, expires_delta)
    \/ \E token \in Presentable : Decode(token)
    \/ TickToken

SpecToken == Init /\ [][NextToken]_vars

\* sessions made by registrations and logins, revoked and swept by the
\* service
NextSessions ==
    \/ Register({1}, FirstClient)
    \/ \E raw \in RawEmails, password \in ValidPasswords, client \in FirstClient :
          LoginStep(raw, password, client) /\ UNCHANGED <<failRun, loggedOut>>
    \/ \E u \in users, all \in BOOLEAN :
          LogoutUser(u.id, all) /\ UNCHANGED <<failRun, loggedOut>>
    \/ \E u \in users, s \in sessions :
          RevokeSession(u.id, s.id) /\ UNCHANGED <<failRun, loggedOut>>
    \/ Cleanup /\ UNCHANGED <<failRun, loggedOut>>
    \/ \E s \in sessions : IsValid(s.id) /\ UNCHANGED <<failRun, loggedOut>>
    \/ Tick /\ UNCHANGED <<failRun, loggedOut>>

SpecSessions == Init /\ [][NextSessions]_vars

\* registrations and logins of users whose failure counters have been set
NextCounters ==
    \/ Register({1}, FirstClient)
    \/ \E raw \in RawEmails, password \in Passwords, client \in FirstClient :
          LoginStep(raw, password, client) /\ UNCHANGED <<failRun, loggedOut>>
    \/ \E u \in users : IncrementFailed(u.id) /\ UNCHANGED <<failRun, loggedOut>>
    \/ \E u \in users : ResetFailed(u.id) /\ UNCHANGED <<failRun, loggedOut>>
    \/ \E u \in users : IsLocked(u.id) /\ UNCHANGED <<failRun, loggedOut>>
    \/ Tick /\ UNCHANGED <<failRun, loggedOut>>

SpecCounters == Init /\ [][NextCounters]_vars

\* refresh tokens signed with SECRET_KEY, whoever encoded them: decode_token
\* checks the signature and exp and nothing else
SignedRefreshTokens ==
    {[type |-> "refresh", sub |-> Str(user_id), iat |-> iat, exp |-> exp,
      jti |-> Str(session_id)] :
        user_id \in 1..2, session_id \in 1..MaxSessions, iat \in {0, 1},
        exp \in {RefreshTtl, RefreshTtl + 1}}

\* sessions refreshed with any signed refresh token
NextSigned ==
    \/ Register({1}, FirstClient)
    \/ \E raw \in RawEmails, password \in ValidPasswords, client \in FirstClient :
          LoginStep(raw, password, client) /\ UNCHANGED <<failRun, loggedOut>>
    \/ \E token \in SignedRefreshTokens, client \in Clients :
          Refresh(token, client) /\ UNCHANGED <<failRun, loggedOut>>
    \/ Tick /\ UNCHANGED <<failRun, loggedOut>>

SpecSigned == Init /\ [][NextSigned]_vars

\* the refresh token minted for a session row
MintedFor(s) ==
    create_refresh_token(Str(s.user_id), Str(s.id), s.expires_at - RefreshTtl)

\* refreshes of the same sessions running side by side
NextRefreshRace ==
    \/ \E client \in Clients :
          RegisterBegin(1, <<"a">>, StrongSecret, client)
    \/ RegisterFlush(1)
    \/ RegisterCommit(1)
    \/ \E p \in Procs, s \in sessions,
            client \in Clients \cup {HeaderlessClient} :
          RefreshBegin(p, MintedFor(s), client)
    \/ \E p \in Procs : RefreshCommit(p)

SpecRefreshRace == Init /\ [][NextRefreshRace]_vars

\* logouts whose revoking statements may raise
NextLogoutFaults ==
    \/ Register({1}, FirstClient)
    \/ \E raw \in RawEmails, password \in ValidPasswords, client \in FirstClient :
          LoginStep(raw, password, client) /\ UNCHANGED <<failRun, loggedOut>>
    \/ \E u \in users, all \in BOOLEAN :
          LogoutUser(u.id, all) /\ UNCHANGED <<failRun, loggedOut>>
    \/ \E u \in users, all \in BOOLEAN :
          LogoutUserFault(u.id, all) /\ UNCHANGED <<failRun, loggedOut>>

SpecLogoutFaults == Init /\ [][NextLogoutFaults]_vars

\* registrations and logins whose steps after the commit may raise
NextFaults ==
    \/ Register({1}, Clients)
    \/ RegisterCommitFault(1)
    \/ \E raw \in RawEmails, password \in Passwords, client \in Clients :
          LoginStep(raw, password, client) /\ UNCHANGED <<failRun, loggedOut>>
    \/ \E raw \in RawEmails, password \in Passwords, client \in Clients :
          LoginFault(raw, password, client) /\ UNCHANGED <<failRun, loggedOut>>

SpecFaults == Init /\ [][NextFaults]_vars

\* a password of n characters that has every class of character and no run
Padded(n) == [i \in 1..n |-> <<"A", "b", "1", "!">>[((i - 1) % 4) + 1]]

\* passwords as typed by clients: character sequences
PolicyPasswords ==
    {Padded(7), Padded(8), Padded(128), Padded(129),
     <<"a", "b", "c", "d", "1", "2", "3", "4", "!">>,
     <<"A", "B", "C", "D", "1", "2", "3", "4", "!">>,
     <<"A", "b", "c", "d", "e", "f", "g", "h", "!">>,
     <<"A", "b", "c", "d", "1", "2", "3", "4">>,
     <<"A", "b", "c", "d", " ", "1", "2", "3", "4">>,
     <<"M", "y", "A", "d", "m", "i", "n", "1", "2", "3", "!">>,
     <<"1", "2", "3", "4", "5", "6", "7", "8">>,
     <<"A", "a", "a", "a", "a", "1", "2", "3", "!">>,
     <<"A", "a", "a", "a", "b", "1", "2", "3", "!">>,
     <<"A", "b", "1", "!", "!", "!", "!", "c", "d">>}

\* registrations with passwords of every kind
NextPolicy ==
    \/ \E raw \in RawEmails, password \in PolicyPasswords, client \in FirstClient :
          RegisterValidated(1, raw, password, client)
    \/ RegisterFlush(1)
    \/ RegisterCommit(1)

SpecPolicy == Init /\ [][NextPolicy]_vars

\* the user ids a two-factor call may name: the registered ones and the next
UserIds == 1..nextUserId

\* the backup codes a client holds: those of the answer before this call
HeldCodes == {resp.codes[i] : i \in DOMAIN resp.codes}
UnknownCode == <<"0", "0", "0", "0", "-", "0", "0", "0", "0">>

\* registered users driving the two-factor service
NextTwoFactor ==
    \/ Register({1}, FirstClient)
    \/ \E id \in UserIds : InitializeSetup(id) /\ UNCHANGED <<failRun, loggedOut>>
    \/ \E id \in UserIds, code \in TotpCodes :
          CompleteSetup(id, code) /\ UNCHANGED <<failRun, loggedOut>>
    \/ \E id \in UserIds, password \in Passwords, code \in TotpCodes :
          Disable(id, password, code) /\ UNCHANGED <<failRun, loggedOut>>
    \/ \E id \in UserIds, password \in Passwords :
          RegenerateBackupCodes(id, password) /\ UNCHANGED <<failRun, loggedOut>>
    \/ GenerateBackupCodes /\ UNCHANGED <<failRun, loggedOut>>
    \/ \E id \in UserIds, code \in HeldCodes \cup {UnknownCode} :
          VerifyBackupCode(id, code) /\ UNCHANGED <<failRun, loggedOut>>

SpecTwoFactor == Init /\ [][NextTwoFactor]_vars

\* =============================================================== claims
\* the session a refresh token names, in a set of session rows
Named(token, rows) == {s \in rows : s.id = ToInt(token.jti)}

\* the committed user rows carrying an address, compared case-insensitively
SameAddress(email, rows) == {u \in rows : Lower(u.email) = Lower(email)}

\* C1: after LOCK_THRESHOLD consecutive failed logins of a registered user
\* the next login, whatever its password, is refused as locked.
C1_LockedAfterFiveFailures ==
    [][\A e \in DOMAIN failRun :
          (resp'.op = "login" /\ resp'.email = e /\ failRun[e] >= LOCK_THRESHOLD)
              => (~resp'.ok /\ resp'.status = 401 /\ resp'.branch = "locked")]_vars

\* C2: after a logout every session of the user is invalid, and /auth/me
\* answers 401 to every access token issued to the user before the logout.
C2_LogoutInvalidatesTokens ==
    /\ (resp.op = "logout" /\ resp.ok)
          => \A s \in sessions : s.user_id = resp.user_id => ~is_valid(s, now)
    /\ (resp.op = "me" /\ resp.presented \in loggedOut) => resp.status = 401

\* C3: a successful Register returns an access token whose subject is the
\* id of the user row it has just created, and leaves exactly one session
\* row for that user, active, unrevoked and unexpired.
C3_RegisterTokenAndSession ==
    [][(resp'.op = "register" /\ resp'.ok) =>
          \E u \in users' \ users :
             /\ users' = users \cup {u}
             /\ u.email = Lower(resp'.email)
             /\ resp'.access.type = "access"
             /\ resp'.access.sub = Str(u.id)
             /\ ToInt(resp'.access.sub) = u.id
             /\ \E s \in sessions' :
                   /\ {r \in sessions' : r.user_id = u.id} = {s}
                   /\ s.is_active /\ s.revoked_at = Null /\ s.expires_at > now'
                   /\ is_valid(s, now')]_vars

C3_Witness ==
    /\ resp.op = "register" /\ resp.ok
    /\ \E u \in users : u.id = resp.user_id /\ ToInt(resp.access.sub) = u.id

\* C4: a Register whose address differs at most by letter case from a
\* registered one fails with "Email already registered" and writes nothing;
\* no two user rows share an address up to case, and stored addresses are
\* lowercase.
C4_CaseInsensitiveUnique ==
    [][/\ (resp'.op = "register" /\ SameAddress(resp'.email, users) # {})
             => /\ resp'.status = 400
                /\ resp'.detail = StrOfAuthError("Email already registered")
                /\ users' = users
                /\ sessions' = sessions
       /\ \A u, v \in users' : Lower(u.email) = Lower(v.email) => u = v
       /\ \A u \in users' : u.email = Lower(u.email)]_vars

C4_Witness ==
    /\ resp.op = "register" /\ resp.status = 400
    /\ resp.email = <<"A">>
    /\ \E u \in users : u.email = <<"a">>

\* C5: of the registrations for one address that were in flight together,
\* exactly one succeeds, every other fails with "Email already registered",
\* and exactly one user row carries the address.
RaceGroup(p) == req[p].raced \cup {p}

C5_RaceOneWinner ==
    \A p \in Procs :
       (/\ req[p].raced # {}
        /\ \A q \in RaceGroup(p) :
              /\ req[q].pc = "done"
              /\ req[q].email = req[p].email
              /\ RaceGroup(q) = RaceGroup(p))
       => /\ Cardinality({q \in RaceGroup(p) : req[q].outcome = "ok"}) = 1
          /\ \A q \in RaceGroup(p) :
                req[q].outcome \in {"ok", "Email already registered"}
          /\ Cardinality({u \in users : u.email = req[p].email}) = 1

C5_Witness ==
    \E p, q \in Procs :
       /\ p # q
       /\ req[p].pc = "done" /\ req[q].pc = "done"
       /\ q \in req[p].raced /\ p \in req[q].raced
       /\ req[p].email = req[q].email
       /\ req[p].outcome = "ok"
       /\ req[q].outcome = "Email already registered"
       /\ resp.op = "register" /\ resp.status = 400 /\ resp.branch = "integrity_error"

\* C6: a refresh token issued for session S yields, every time it is used
\* while S is unrevoked and unexpired and its user is active, an access
\* token whose subject is S's user; the refresh leaves S as usable as before.
IssuedFor(token, s) ==
    /\ token.type = "refresh"
    /\ ToInt(token.jti) = s.id
    /\ ToInt(token.sub) = s.user_id

Usable(s, t) ==
    /\ s.is_active /\ s.revoked_at = Null /\ t < s.expires_at
    /\ \E u \in users : u.id = s.user_id /\ u.is_active

C6_RefreshResolvesToOwner ==
    [][\A s \in sessions :
          (/\ resp'.op = "refresh"
           /\ IssuedFor(resp'.presented, s)
           /\ Usable(s, now))
          => /\ resp'.ok
             /\ resp'.access.type = "access"
             /\ ToInt(resp'.access.sub) = s.user_id
             /\ resp'.access.exp > now
             /\ \E r \in sessions' :
                   /\ r.id = s.id /\ r.user_id = s.user_id
                   /\ r.is_active /\ r.revoked_at = Null
                   /\ r.expires_at = s.expires_at
                   /\ r.refresh_token_hash = s.refresh_token_hash
                   /\ verify_refresh_token(resp'.presented, r.refresh_token_hash)]_vars

C6_Witness ==
    /\ resp.op = "refresh" /\ resp.ok
    /\ now > resp.presented.iat
    /\ \E s \in sessions : IssuedFor(resp.presented, s) /\ Usable(s, now)
                           /\ ToInt(resp.access.sub) = s.user_id
    /\ \E a \in tokens : a.type = "access" /\ a.sub = resp.access.sub
                         /\ a.iat < now

\* C7 as claimed: a refresh naming a missing, inactive or expired session
\* fails with "Invalid refresh token", and a revoked session stays revoked.
StaysRevoked ==
    \A s \in sessions : ~s.is_active =>
        \A r \in sessions' : r.id = s.id => ~r.is_active

C7_InvalidRefreshTokenAlways ==
    [][/\ (/\ resp'.op = "refresh"
           /\ resp'.presented.type = "refresh"
           /\ \/ Named(resp'.presented, sessions) = {}
              \/ \E s \in Named(resp'.presented, sessions) :
                    ~s.is_active \/ is_expired(s, now))
          => /\ resp'.status = 401
             /\ resp'.detail = StrOfAuthError("Invalid refresh token")
       /\ StaysRevoked]_vars

\* C7 as amended: such a refresh never succeeds; it fails with "Invalid
\* refresh token" when the session is inactive and the token unexpired, and
\* with "Token has expired" when the session has reached its expiry or has
\* been swept, the token expiring with its session; a revoked session stays
\* revoked.
C7_RefreshFailsForDeadSession ==
    [][/\ (resp'.op = "refresh" /\ resp'.presented.type = "refresh") =>
          LET named == Named(resp'.presented, sessions) IN
          /\ \A s \in named : s.expires_at = resp'.presented.exp
          /\ (named = {} \/ \E s \in named : ~s.is_active \/ now >= s.expires_at)
                => ~resp'.ok /\ resp'.status = 401 /\ sessions' = sessions
          /\ (\E s \in named : ~s.is_active /\ now < s.expires_at)
                => resp'.detail = StrOfAuthError("Invalid refresh token")
          /\ (named = {} \/ \E s \in named : now >= s.expires_at)
                => resp'.detail = StrOfAuthError("Token has expired")
       /\ StaysRevoked]_vars

C7_Witness ==
    /\ resp.op = "refresh" /\ resp.presented.type = "refresh"
    /\ Named(resp.presented, sessions) = {}
    /\ resp.detail = StrOfAuthError("Token has expired")

\* C8: a successful Login adds exactly one session row, owned by the user
\* logged in; total_sessions of /auth/me is the number of the user's rows
\* with is_active and expires_at > now.
RECURSIVE CountLive(_, _, _)
CountLive(rows, user_id, t) ==
    IF rows = {} THEN 0
    ELSE LET s == CHOOSE r \in rows : TRUE IN
         (IF s.user_id = user_id /\ s.is_active = TRUE /\ s.expires_at > t
          THEN 1 ELSE 0) + CountLive(rows \ {s}, user_id, t)

C8_SessionCount ==
    [][/\ (resp'.op = "login" /\ resp'.ok) =>
             \E s \in sessions' \ sessions :
                /\ sessions' = sessions \cup {s}
                /\ s.user_id = resp'.user_id
                /\ Cardinality(sessions') = Cardinality(sessions) + 1
       /\ (resp'.op = "me" /\ resp'.ok) =>
             resp'.total_sessions = CountLive(sessions', resp'.user_id, now')]_vars

C8_Witness ==
    /\ resp.op = "me" /\ resp.ok /\ resp.total_sessions = 2
    /\ Cardinality({s \in sessions : s.user_id = resp.user_id}) = 2
    /\ Cardinality(tokens) = 2

\* C9: the body of a 201 from POST /auth/register carries access_token,
\* refresh_token, token_type and expires_in.
C9_RegisterBodyHasTokens ==
    (resp.op = "register" /\ resp.status = 201) => TokenKeys \subseteq resp.keys

\* C10: a login for an unknown address and a login with a wrong password
\* give the caller the same response, and neither writes anything.
Visible(r) ==
    [status |-> r.status, detail |-> r.detail, keys |-> r.keys,
     access |-> r.access, refresh |-> r.refresh]

C10_NoEmailEnumeration ==
    [][(resp'.op = "login" /\ resp'.branch \in {"no_user", "bad_password"}) =>
          /\ Visible(resp') = [status |-> 401,
                               detail |-> StrOfAuthError("Invalid credentials"),
                               keys |-> {"detail"},
                               access |-> NoToken, refresh |-> NoToken]
          /\ (resp'.branch = "no_user") = (get_user_by_email(resp'.email) = {})
          /\ users' = users /\ sessions' = sessions /\ tokens' = tokens]_vars

C10_Witness ==
    /\ resp.op = "login" /\ resp.branch = "no_user"
    /\ users # {}
    /\ get_user_by_email(resp.email) = {}

\* C11: a login of an existing, unlocked user that fails the password check
\* leaves the user's failed_login_attempts one greater; a login for an
\* unknown address changes no user row.
C11_FailureCounted ==
    [][(resp'.op = "login" /\ ~resp'.ok) =>
          LET found == get_user_by_email(resp'.email) IN
          /\ found = {} => users' = users
          /\ \A u \in found :
                (~is_locked(u, now)
                   /\ ~verify_password(resp'.password, u.password_hash))
                => \E v \in users' :
                      /\ v.id = u.id
                      /\ v.failed_login_attempts = u.failed_login_attempts + 1]_vars

\* C12: after a successful login the user's failed_login_attempts is 0, its
\* locked_until is null and its last_login is the time of the login.
C12_SuccessResets ==
    [][(resp'.op = "login" /\ resp'.ok) =>
          \E v \in users' :
             /\ v.id = resp'.user_id
             /\ v.failed_login_attempts = 0
             /\ v.locked_until = Null
             /\ v.last_login = now']_vars

\* C13: a login that fails creates no session, issues no token and leaves
\* every user row, last_login included, as it was; for a deactivated user
\* the failure is "Account is deactivated" when the password is right and
\* "Invalid credentials" when it is wrong.
C13_FailedLoginWritesNothing ==
    [][(resp'.op = "login" /\ ~resp'.ok) =>
          /\ resp'.status = 401
          /\ sessions' = sessions /\ nextSessionId' = nextSessionId
          /\ users' = users /\ tokens' = tokens
          /\ resp'.access = NoToken /\ resp'.refresh = NoToken
          /\ \A u \in get_user_by_email(resp'.email) : ~u.is_active =>
                resp'.detail =
                   IF verify_password(resp'.password, u.password_hash)
                   THEN StrOfAuthError("Account is deactivated")
                   ELSE StrOfAuthError("Invalid credentials")]_vars

C13_Witness ==
    /\ resp.op = "login" /\ ~resp.ok
    /\ resp.detail = StrOfAuthError("Account is deactivated")
    /\ \E u \in get_user_by_email(resp.email) :
          ~u.is_active /\ verify_password(resp.password, u.password_hash)
    /\ sessions # {}

\* C14: a refresh never succeeds with an access token, and the bearer check
\* of /auth/me and /auth/logout never succeeds with a refresh token.
C14_TokenTypesNotInterchangeable ==
    [][/\ (resp'.op = "refresh" /\ resp'.presented.type = "access")
             => /\ ~resp'.ok /\ resp'.status = 401
                /\ resp'.access = NoToken
                /\ sessions' = sessions /\ tokens' = tokens
       /\ (resp'.op \in {"me", "logout"} /\ resp'.presented.type = "refresh")
             => /\ ~resp'.ok /\ resp'.status = 401
                /\ sessions' = sessions]_vars

C14_Witness ==
    /\ resp.op = "me" /\ ~resp.ok
    /\ resp.presented.type = "refresh" /\ resp.presented.exp > now
    /\ \E s \in Named(resp.presented, sessions) : Usable(s, now)

\* C15: the bearer check and the refresh never succeed for a token whose
\* subject is missing or has is_active false; a successful bearer check
\* returns the id of an existing, active user; a refresh that reaches the
\* user check fails with "User not found or inactive", issues no token and
\* changes no session.
SubjectUsers(token) == {u \in users : u.id = ToInt(token.sub)}

C16_AccessRoundTrip ==
    [][resp'.op = "decode" =>
          LET token == resp'.presented IN
          \A id \in SubjectIds, ttl \in Deltas \ {Null} :
             token = create_access_token_delta(id, ttl, token.iat) =>
                /\ now < token.iat + ttl
                      => /\ resp'.ok
                         /\ resp'.access.sub = Str(id)
                         /\ ToInt(resp'.access.sub) = id
                         /\ resp'.access.type = "access"
                /\ now > token.iat + ttl
                      => /\ ~resp'.ok
                         /\ resp'.detail = StrOfAuthError("Token has expired")]_vars

\* C17: the bearer check and the refresh answer an expired token, a
\* malformed token and a token of the wrong type with the same error.
ExpectedType(op) == IF op = "refresh" THEN "refresh" ELSE "access"

TokenFault(op, token, t) ==
    \/ token.type = "none"
    \/ token.exp <= t
    \/ token.type # ExpectedType(op)

C17_TokenErrorsGeneric ==
    [][(/\ resp.op \in {"me", "logout", "refresh"}
        /\ resp'.op = resp.op
        /\ now' = now
        /\ TokenFault(resp.op, resp.presented, now)
        /\ TokenFault(resp'.op, resp'.presented, now))
       => /\ resp'.status = resp.status
          /\ resp'.detail = resp.detail]_vars

\* C18: a logout of a user with revoke_all_sessions leaves every session of
\* the user inactive, stamps the ones that were active with the logout
\* time, and leaves the sessions of other users and the revoked_at of the
\* sessions already revoked as they were; no row is deleted or added.
C18_LogoutAllFrame ==
    [][(resp'.op = "logout_user" /\ resp'.branch = "all") =>
          /\ Cardinality(sessions') = Cardinality(sessions)
          /\ \A s \in sessions : \E r \in sessions' :
                /\ r.id = s.id
                /\ IF s.user_id = resp'.user_id /\ s.is_active
                   THEN r = [s EXCEPT !.is_active = FALSE, !.revoked_at = now]
                   ELSE r = s
          /\ \A r \in sessions' : r.user_id = resp'.user_id => ~r.is_active
          /\ users' = users]_vars

C18_Witness ==
    /\ resp.op = "logout_user" /\ resp.branch = "all"
    /\ now > 0
    /\ \E s, r \in sessions :
          /\ s.user_id = resp.user_id /\ r.user_id = resp.user_id
          /\ ~s.is_active /\ s.revoked_at = now
          /\ ~r.is_active /\ r.revoked_at # Null /\ r.revoked_at < now

TokenOf(s) ==
    create_refresh_token(Str(s.user_id), Str(s.id), s.expires_at - RefreshTtl)

C20_SweepOnlyExpired ==
    [][resp'.op = "cleanup" =>
          /\ sessions' = {s \in sessions : s.expires_at > now}
          /\ resp'.count = Cardinality(sessions) - Cardinality(sessions')
          /\ \A s \in sessions \ sessions' :
                /\ now >= s.expires_at
                /\ ~refresh_check(TokenOf(s), now).ok
          /\ \A s \in sessions :
                (verify_refresh_token(TokenOf(s), s.refresh_token_hash)
                   /\ refresh_check(TokenOf(s), now).ok) => s \in sessions'
          /\ \A s \in sessions : (~s.is_active /\ s.expires_at > now)
                => s \in sessions'
          /\ users' = users]_vars

C20_Witness ==
    /\ resp.op = "cleanup" /\ resp.count = 1
    /\ \E s \in sessions : ~s.is_active /\ s.expires_at > now

\* C21: Session.is_valid holds exactly when the session is active, now is
\* before expires_at and revoked_at is null; at now = expires_at the session
\* is not valid.
C21_ValidIffLiveUnexpired ==
    [][resp'.op = "is_valid" =>
          \A s \in sessions : s.id = resp'.session_id =>
              (resp'.ok <=> (s.is_active /\ now < s.expires_at
                               /\ s.revoked_at = Null))]_vars

\* C22: recordFailure adds one to the counter and sets locked_until to
\* now + 30 minutes exactly when the new count has reached 5; below 5 it
\* leaves locked_until as it was.
C22_FailureLocksAtFive ==
    [][resp'.op = "increment_failed" =>
          users' = {IF u.id = resp'.user_id
                    THEN [u EXCEPT !.failed_login_attempts = @ + 1,
                                   !.locked_until =
                                       IF u.failed_login_attempts + 1 >= 5
                                       THEN now + 30 ELSE @]
                    ELSE u : u \in users}]_vars

C22_Witness ==
    /\ resp.op = "increment_failed"
    /\ now > 0
    /\ \E u \in users : /\ u.id = resp.user_id
                         /\ u.failed_login_attempts = 5
                         /\ u.locked_until = now + 30

\* C23: isLocked is true exactly when locked_until is not null and now is
\* before it: false without a lock, false at and after the instant the lock
\* ends, true before it.
C23_LockedIffBeforeDeadline ==
    [][resp'.op = "is_locked" =>
          \A u \in users : u.id = resp'.user_id =>
              /\ u.locked_until = Null => ~resp'.ok
              /\ (u.locked_until # Null /\ now < u.locked_until) => resp'.ok
              /\ (u.locked_until # Null /\ now >= u.locked_until)
                    => ~resp'.ok]_vars

C23_Witness ==
    /\ resp.op = "is_locked" /\ ~resp.ok
    /\ \E u \in users : u.id = resp.user_id /\ u.locked_until = now

\* C24: recordSuccess sets the counter to 0 and locked_until to null from
\* any prior state, and changes no other field of the user and no other user.
C24_SuccessClearsCounterAndLock ==
    [][resp'.op = "reset_failed" =>
          /\ \A u \in users' : u.id = resp'.user_id =>
                u.failed_login_attempts = 0 /\ u.locked_until = Null
          /\ \A u \in users : \E v \in users' :
                /\ v.id = u.id
                /\ u.id # resp'.user_id => v = u
                /\ v = [u EXCEPT !.failed_login_attempts = v.failed_login_attempts,
                                 !.locked_until = v.locked_until]
          /\ Cardinality(users') = Cardinality(users)]_vars

C24_Witness ==
    /\ resp.op = "reset_failed"
    /\ now > 0
    /\ \E u \in users : /\ u.id = resp.user_id
                         /\ u.failed_login_attempts = 0
                         /\ u.locked_until = Null
    /\ \E u \in users : u.id # resp.user_id /\ u.locked_until # Null

\* C26: InitiateSetup fails with AlreadyEnabled when the user has two-factor
\* enabled, leaving the row unchanged; otherwise it succeeds and stores a
\* freshly generated secret as the user's totp_secret, changing nothing else
\* (so it may be repeated while the setup is pending).
C26_InitiateStoresSecret ==
    [][resp'.op = "initialize_2fa_setup" =>
          \A u \in users : u.id = resp'.user_id =>
              IF u.two_factor_enabled
              THEN /\ ~resp'.ok
                   /\ resp'.error =
                         ValueError("2FA is already enabled for this user")
                   /\ users' = users
              ELSE /\ resp'.ok
                   /\ resp'.secret \in Secrets
                   /\ users' = {IF v.id = u.id
                                THEN [v EXCEPT !.totp_secret = resp'.secret]
                                ELSE v : v \in users}]_vars

\* C27: CompleteSetup fails with SetupNotInitialized when the user has no
\* pending secret and with InvalidCode when the code does not validate
\* against the stored secret; a failed call changes no row and returns no
\* backup codes.
C27_CompleteSetupFailures ==
    [][resp'.op = "complete_2fa_setup" =>
          /\ \A u \in users : u.id = resp'.user_id =>
                /\ u.totp_secret = NoSecret =>
                      /\ ~resp'.ok
                      /\ resp'.error = ValueError(
                            "2FA setup not initialized. Please start setup first.")
                /\ (u.totp_secret # NoSecret /\ ~u.two_factor_enabled
                      /\ ~verify_totp_code(u.totp_secret, resp'.code)) =>
                      /\ ~resp'.ok
                      /\ resp'.error = ValueError(
                            "Invalid TOTP code. Please check your authenticator app.")
          /\ ~resp'.ok => (users' = users /\ resp'.codes = <<>>)]_vars

\* C29: a backup code that has been issued and not yet redeemed is accepted
\* by VerifyBackupCode (and refused from then on): the redemption of a code
\* of the list just handed out returns true.
C29_BackupCodeRedeemable ==
    [][(/\ resp.op \in {"complete_2fa_setup", "generate_backup_codes"}
        /\ resp.ok
        /\ resp'.op = "verify_backup_code"
        /\ \E i \in DOMAIN resp.codes : resp.codes[i] = resp'.code
        /\ \E u \in users : u.id = resp'.user_id)
          => resp'.ok]_vars

\* C32: the registration password policy accepts a password exactly when
\* its length is between 8 and 128, it has an uppercase letter, a lowercase
\* letter, a digit and a non-alphanumeric character, it contains none of the
\* banned words in any letter case, it is not a listed numeric password and
\* it has no run of 4 identical characters; a rejected password creates no
\* user.
Banned ==
    {<<"p", "a", "s", "s", "w", "o", "r", "d">>, <<"a", "d", "m", "i", "n">>,
     <<"u", "s", "e", "r">>, <<"l", "o", "g", "i", "n">>,
     <<"q", "w", "e", "r", "t", "y">>}

SameLetter(c, d) == LowerChar(c) = LowerChar(d)

PolicyAccepts(v) ==
    /\ Len(v) >= 8 /\ Len(v) <= 128
    /\ \E i \in DOMAIN v : isupper(v[i])
    /\ \E i \in DOMAIN v : islower(v[i])
    /\ \E i \in DOMAIN v : isdigit(v[i])
    /\ \E i \in DOMAIN v : ~isalnum(v[i])
    /\ \A word \in Banned : \A i \in 1..Len(v) :
          (i + Len(word) - 1 <= Len(v))
             => \E k \in 1..Len(word) : ~SameLetter(v[i + k - 1], word[k])
    /\ v \notin {<<"1", "2", "3", "4", "5", "6", "7", "8", "9">>,
                 <<"1", "2", "3", "4", "5", "6", "7", "8">>,
                 <<"1", "2", "3", "4", "5", "6", "7">>,
                 <<"1", "2", "3", "4", "5", "6">>}
    /\ \A i \in 1..Len(v) :
          (i + 3 <= Len(v)) =>
             ~(v[i] = v[i + 1] /\ v[i] = v[i + 2] /\ v[i] = v[i + 3])

C32_PasswordPolicy ==
    [][/\ (resp'.op = "register" /\ resp'.status = 422) =>
             /\ ~PolicyAccepts(resp'.password)
             /\ users' = users /\ sessions' = sessions /\ req' = req
       /\ \A p \in Procs :
             (req[p].pc = "idle" /\ req'[p].pc # "idle")
                => PolicyAccepts(req'[p].password)
       /\ \A u \in users' \ users :
             \E password \in PolicyPasswords :
                /\ PolicyAccepts(password)
                /\ u.password_hash = hash_password(password)]_vars

C32_Witness ==
    /\ resp.op = "register" /\ resp.status = 422
    /\ resp.password = <<"M", "y", "A", "d", "m", "i", "n", "1", "2", "3", "!">>
    /\ \E u \in users : u.password_hash = hash_password(Padded(8))

\* C33: Register and Login are all-or-nothing: a call that answers with an
\* error, a failure after the database writes included, leaves no user row
\* and no session row of its own committed, and a call that commits rows
\* answers with success and both tokens.
C33_AllOrNothing ==
    [][resp'.op \in {"register", "login"} =>
          /\ ~resp'.ok => (users' = users /\ sessions' = sessions)
          /\ (users' # users \/ sessions' # sessions) =>
                /\ resp'.ok
                /\ resp'.access.type = "access"
                /\ resp'.refresh.type = "refresh"]_vars

\* C34: every session is bound to its refresh token: the token handed out
\* with a new session carries the session's id as jti and the session's
\* user id as subject, and in every committed state the stored hash of a
\* session is the bcrypt hash of the token minted for it, never the
\* placeholder and never the token itself.
C34_SessionBoundToToken ==
    [][/\ (resp'.op \in {"register", "login"} /\ resp'.ok) =>
             \E s \in sessions' \ sessions :
                /\ sessions' \ sessions = {s}
                /\ resp'.refresh.type = "refresh"
                /\ ToInt(resp'.refresh.jti) = s.id
                /\ ToInt(resp'.refresh.sub) = s.user_id
                /\ s.user_id = resp'.user_id
                /\ s.refresh_token_hash = hash_refresh_token(resp'.refresh)
       /\ \A s \in sessions' :
             /\ s.refresh_token_hash # TEMP_HASH
             /\ s.refresh_token_hash[1] = "$2b$"
             /\ s.refresh_token_hash = hash_refresh_token(TokenOf(s))
             /\ \A r \in sessions' : r.id = s.id => r = s]_vars

C34_Witness ==
    /\ resp.op = "login" /\ resp.ok
    /\ Cardinality(sessions) = 2
    /\ \E s \in sessions : /\ ToInt(resp.refresh.jti) = s.id
                            /\ s.id = 2
                            /\ s.refresh_token_hash
                                  = hash_refresh_token(resp.refresh)

\* C35: a refresh succeeds only with the token minted for the session that
\* the token names, presented for that session's owner: a signed, unexpired
\* refresh token that names a live session but is not the token minted for
\* it, or whose subject is not the session's owner, is refused with
\* "Invalid refresh token".
C35_OnlyTheMintedToken ==
    [][resp'.op = "refresh" =>
          LET token == resp'.presented
              named == {s \in sessions : s.id = session_id_of(token)}
          IN /\ resp'.ok =>
                   \E s \in named : /\ s.user_id = ToInt(token.sub)
                                    /\ token = TokenOf(s)
             /\ (/\ decode_token(token, now).ok
                 /\ \E s \in named :
                       /\ s.is_active /\ now < s.expires_at
                       /\ token # TokenOf(s) \/ s.user_id # ToInt(token.sub))
                  => /\ ~resp'.ok
                     /\ resp'.detail = StrOfAuthError("Invalid refresh token")
         ]_vars

\* C36: a refresh changes at most the user_agent and ip_address of the one
\* session its token names: it creates no session, hands out no refresh
\* token, and leaves that session's hash, expiry, is_active and revoked_at,
\* every other session and every user row as they were; a failed refresh
\* changes nothing.
C36_RefreshFrame ==
    [][resp'.op = "refresh" =>
          /\ users' = users
          /\ nextSessionId' = nextSessionId
          /\ resp'.refresh = NoToken
          /\ \A t \in tokens' \ tokens : t.type = "access"
          /\ ~resp'.ok => (sessions' = sessions /\ tokens' = tokens)
          /\ resp'.ok =>
                /\ Cardinality(sessions') = Cardinality(sessions)
                /\ \A s \in sessions :
                      IF s.id = session_id_of(resp'.presented)
                      THEN \E r \in sessions' :
                              r = [s EXCEPT !.user_agent = r.user_agent,
                                            !.ip_address = r.ip_address]
                      ELSE s \in sessions']_vars

C36_Witness ==
    /\ resp.op = "refresh" /\ resp.ok
    /\ Cardinality(sessions) = 2
    /\ \E s \in sessions : /\ s.id = session_id_of(resp.presented)
                            /\ s.user_agent = "curl"
    /\ \E s \in sessions : /\ s.id # session_id_of(resp.presented)
                            /\ s.user_agent = ""

\* pairs of refreshes of one token that ran side by side, with no other
\* refresh of that token beside them, and have both answered
RacedRefreshes ==
    {pq \in Procs \X Procs :
        /\ pq[1] # pq[2]
        /\ req[pq[1]].raced = {pq[2]} /\ req[pq[2]].raced = {pq[1]}
        /\ req[pq[1]].refresh = req[pq[2]].refresh
        /\ req[pq[1]].pc = "refreshed" /\ req[pq[2]].pc = "refreshed"}

\* the session of a pair is still valid, with the hash and expiry it was
\* created with
StillValid(s, token) ==
    /\ s.id = session_id_of(token)
    /\ s.is_active /\ s.revoked_at = Null /\ now < s.expires_at
    /\ s.refresh_token_hash = hash_refresh_token(token)
    /\ s.expires_at = token.exp

C38_CounterAndLockInvariant ==
    [][/\ \A v \in users' :
             /\ v.failed_login_attempts >= 0
             /\ v.locked_until # Null => v.failed_login_attempts >= 5
       /\ resp'.op = "increment_failed" =>
             \A u \in users, v \in users' :
                (/\ u.id = resp'.user_id /\ v.id = u.id
                 /\ u.failed_login_attempts >= 5)
                   => v.locked_until = now + 30
       /\ \A u \in users, v \in users' :
             (v.id = u.id /\ v.failed_login_attempts < u.failed_login_attempts)
                => resp'.op = "reset_failed" /\ resp'.user_id = u.id]_vars

C38_Witness ==
    /\ resp.op = "increment_failed"
    /\ now > 0
    /\ \E u \in users : /\ u.id = resp.user_id
                         /\ u.failed_login_attempts = 6
                         /\ u.locked_until = now + 30
    /\ \E u \in users : /\ u.id # resp.user_id
                         /\ u.failed_login_attempts = 0
                         /\ u.locked_until = Null

\* C39: logout_user always returns: true only when, in the committed state
\* after the call, no session of the user is active, and false, with the
\* sessions as they were, when the revoking fails; with revoke_all_sessions
\* true and with revoke_all_sessions false.
C39_LogoutReportsOutcome ==
    [][resp'.op = "logout_user" =>
          /\ resp'.ok => \A s \in sessions' :
                            s.user_id = resp'.user_id => ~s.is_active
          /\ ~resp'.ok => sessions' = sessions]_vars

====
